---------------------------- MODULE Spec2Model ----------------------------
(***************************************************************************)
(* Skill-taxonomy matching engine of skills-match-agent:                   *)
(* NLPSkillExtractor (taxonomy initialisation, extraction with format      *)
(* preservation) and ResumeJobMatcher (score, ratio, explanation).         *)
(*                                                                         *)
(* A Python str is a sequence of one-character strings, so that lower(),   *)
(* replace(), the code-point order of sorted() and f-string formatting are *)
(* computed character by character.  A tokenized document is a sequence of *)
(* token records [text, ws]: the token's surface text and whether          *)
(* whitespace follows it (spaCy's token.text / token.whitespace_).         *)
(* A float score is kept in hundredths of a percent point where it has     *)
(* been rounded (6667 is 66.67) and as the exact fraction num/den where    *)
(* it has not.                                                             *)
(***************************************************************************)
EXTENDS Integers, Sequences, FiniteSets, TLC

(***************************************************************************)
(* Python str primitives                                                   *)
(***************************************************************************)

\* The characters of the model in code-point order (ASCII).
AsciiOrder ==
    <<" ", "#", "+", "-", ".", "/", "0", "1", "2", "3", "4", "5", "6", "7", "8", "9">> \o
    <<":", "A", "B", "C", "D", "E", "F", "G", "H", "I", "J", "K", "L", "M", "N", "O", "P", "Q", "R", "S", "T", "U", "V", "W", "X", "Y", "Z">> \o
    <<"a", "b", "c", "d", "e", "f", "g", "h", "i", "j", "k", "l", "m", "n", "o", "p", "q", "r", "s", "t", "u", "v", "w", "x", "y", "z">>

UpperChars ==
    <<"A", "B", "C", "D", "E", "F", "G", "H", "I", "J", "K", "L", "M", "N", "O", "P", "Q", "R", "S", "T", "U", "V", "W", "X", "Y", "Z">>

LowerChars ==
    <<"a", "b", "c", "d", "e", "f", "g", "h", "i", "j", "k", "l", "m", "n", "o", "p", "q", "r", "s", "t", "u", "v", "w", "x", "y", "z">>

DigitChars ==
    <<"0", "1", "2", "3", "4", "5", "6", "7", "8", "9">>

Chars == {AsciiOrder[i] : i \in DOMAIN AsciiOrder}

\* ord(c): the position of c in code-point order.
Ord == [c \in Chars |-> CHOOSE i \in DOMAIN AsciiOrder : AsciiOrder[i] = c]

CharIsUpper(c) == \E i \in DOMAIN UpperChars : UpperChars[i] = c

CharIsLower(c) == \E i \in DOMAIN LowerChars : LowerChars[i] = c

\* c.lower() for one character.
LowerOf ==
    [c \in Chars |->
        IF CharIsUpper(c)
        THEN LowerChars[CHOOSE i \in DOMAIN UpperChars : UpperChars[i] = c]
        ELSE c]

\* s.lower()
lower(s) == [i \in DOMAIN s |-> LowerOf[s[i]]]

\* s.isupper(): at least one cased character and no lowercase one.
isupper(s) ==
    /\ \E i \in DOMAIN s : CharIsUpper(s[i])
    /\ \A i \in DOMAIN s : ~CharIsLower(s[i])

\* s.islower(): at least one cased character and no uppercase one.
islower(s) ==
    /\ \E i \in DOMAIN s : CharIsLower(s[i])
    /\ \A i \in DOMAIN s : ~CharIsUpper(s[i])

\* pat in s (substring test).
Contains(s, pat) ==
    \E i \in 1..(Len(s) - Len(pat) + 1) : SubSeq(s, i, i + Len(pat) - 1) = pat

startswith(s, pat) ==
    Len(s) >= Len(pat) /\ SubSeq(s, 1, Len(pat)) = pat

endswith(s, pat) ==
    Len(s) >= Len(pat) /\ SubSeq(s, Len(s) - Len(pat) + 1, Len(s)) = pat

\* s.replace(pat, rep): every non-overlapping occurrence, left to right.
RECURSIVE replace(_, _, _)
replace(s, pat, rep) ==
    IF Len(s) < Len(pat) \/ Len(pat) = 0 THEN s
    ELSE IF SubSeq(s, 1, Len(pat)) = pat
         THEN rep \o replace(SubSeq(s, Len(pat) + 1, Len(s)), pat, rep)
         ELSE <<s[1]>> \o replace(Tail(s), pat, rep)

\* a < b in the order sorted() uses for str: lexicographic by code point.
StrLess(a, b) ==
    \E k \in 1..(Len(b)) :
        /\ \A j \in 1..(k - 1) : j <= Len(a) /\ a[j] = b[j]
        /\ \/ k = Len(a) + 1
           \/ k <= Len(a) /\ Ord[a[k]] < Ord[b[k]]

RECURSIVE InsertSorted(_, _)
InsertSorted(x, s) ==
    IF s = <<>> THEN <<x>>
    ELSE IF StrLess(x, Head(s)) THEN <<x>> \o s
         ELSE <<Head(s)>> \o InsertSorted(x, Tail(s))

\* sorted(list of str)
RECURSIVE sorted(_)
sorted(s) ==
    IF s = <<>> THEN <<>> ELSE InsertSorted(Head(s), sorted(Tail(s)))

\* sorted(set of str): the one ascending sequence of the set's members.
RECURSIVE SortedSet(_)
SortedSet(S) ==
    IF S = {} THEN <<>>
    ELSE LET m == CHOOSE x \in S : \A y \in S \ {x} : StrLess(x, y)
         IN  <<m>> \o SortedSet(S \ {m})

Range(s) == {s[i] : i \in DOMAIN s}

\* str(n) for a non-negative int.
RECURSIVE FormatInt(_)
FormatInt(n) ==
    IF n < 10 THEN <<DigitChars[n + 1]>>
    ELSE FormatInt(n \div 10) \o <<DigitChars[(n % 10) + 1]>>

(***************************************************************************)
(* Taxonomy Store: NLPSkillExtractor.__init__ and its helpers              *)
(***************************************************************************)

\* The curated set, entry for entry.
get_curated_tech_skills ==
    {<<"r", "e", "a", "c", "t">>,
     <<"v", "u", "e", ".", "j", "s">>,
     <<"a", "n", "g", "u", "l", "a", "r">>,
     <<"s", "v", "e", "l", "t", "e">>,
     <<"n", "e", "x", "t", ".", "j", "s">>,
     <<"d", "j", "a", "n", "g", "o">>,
     <<"f", "l", "a", "s", "k">>,
     <<"f", "a", "s", "t", "a", "p", "i">>,
     <<"s", "p", "r", "i", "n", "g">>,
     <<"e", "x", "p", "r", "e", "s", "s">>,
     <<"n", "e", "s", "t", ".", "j", "s">>,
     <<".", "n", "e", "t">>,
     <<"a", "s", "p", ".", "n", "e", "t">>,
     <<"l", "a", "r", "a", "v", "e", "l">>,
     <<"r", "a", "i", "l", "s">>,
     <<"p", "o", "s", "t", "g", "r", "e", "s", "q", "l">>,
     <<"m", "y", "s", "q", "l">>,
     <<"m", "o", "n", "g", "o", "d", "b">>,
     <<"r", "e", "d", "i", "s">>,
     <<"e", "l", "a", "s", "t", "i", "c", "s", "e", "a", "r", "c", "h">>,
     <<"c", "a", "s", "s", "a", "n", "d", "r", "a">>,
     <<"d", "y", "n", "a", "m", "o", "d", "b">>,
     <<"s", "q", "l">>,
     <<"n", "o", "s", "q", "l">>,
     <<"a", "w", "s">>,
     <<"a", "z", "u", "r", "e">>,
     <<"g", "c", "p">>,
     <<"g", "o", "o", "g", "l", "e", " ", "c", "l", "o", "u", "d">>,
     <<"h", "e", "r", "o", "k", "u">>,
     <<"v", "e", "r", "c", "e", "l">>,
     <<"d", "o", "c", "k", "e", "r">>,
     <<"k", "u", "b", "e", "r", "n", "e", "t", "e", "s">>,
     <<"k", "8", "s">>,
     <<"t", "e", "r", "r", "a", "f", "o", "r", "m">>,
     <<"a", "n", "s", "i", "b", "l", "e">>,
     <<"j", "e", "n", "k", "i", "n", "s">>,
     <<"g", "i", "t", "h", "u", "b", " ", "a", "c", "t", "i", "o", "n", "s">>,
     <<"g", "i", "t", "l", "a", "b", " ", "c", "i">>,
     <<"c", "i", "/", "c", "d">>,
     <<"a", "g", "i", "l", "e">>,
     <<"s", "c", "r", "u", "m">>,
     <<"d", "e", "v", "o", "p", "s">>,
     <<"t", "d", "d">>,
     <<"r", "e", "s", "t">>,
     <<"g", "r", "a", "p", "h", "q", "l">>,
     <<"m", "i", "c", "r", "o", "s", "e", "r", "v", "i", "c", "e", "s">>,
     <<"a", "p", "i">>}

str_js_suffix == <<".", "j", "s">>

str_js_bare == <<"j", "s">>

str_dot == <<".">>

str_hyphen == <<"-">>

str_dot_prefix == <<"d", "o", "t">>

str_colon == <<":">>

str_hash == <<"#">>

str_space == <<" ">>

str_slash == <<"/">>

str_letter_r == <<"r">>

str_letter_c == <<"c">>

JsFrameworkBases ==
    {<<"r", "e", "a", "c", "t">>, <<"v", "u", "e">>, <<"n", "e", "x", "t">>, <<"n", "e", "s", "t">>}


\* s.strip() (the model's only whitespace is the space).
RECURSIVE strip(_)
strip(s) ==
    IF s # <<>> /\ Head(s) = " " THEN strip(Tail(s))
    ELSE IF s # <<>> /\ s[Len(s)] = " " THEN strip(SubSeq(s, 1, Len(s) - 1))
    ELSE s

\* s.split(":")[0]: the text before the first colon.
BeforeColon(s) ==
    IF Contains(s, str_colon)
    THEN SubSeq(s, 1, (CHOOSE i \in DOMAIN s :
                          s[i] = ":" /\ \A j \in 1..(i - 1) : s[j] # ":") - 1)
    ELSE s

\* What requests.get + raise_for_status can give: an error (HTTP status,
\* network error, timeout) or the lines of the body.
FetchError == [ok |-> FALSE, lines |-> <<>>]

LinguistLines ==
    <<<<"#", " ", "f", "i", "e", "l", "d", "s", ":">>,
     <<"-", "-", "-">>,
     <<"C", ":">>,
     <<" ", " ", "t", "y", "p", "e", ":", " ", "p", "r", "o", "g", "r", "a", "m", "m", "i", "n", "g">>,
     <<"P", "y", "t", "h", "o", "n", ":">>,
     <<" ", " ", "t", "y", "p", "e", ":", " ", "p", "r", "o", "g", "r", "a", "m", "m", "i", "n", "g">>,
     <<"R", ":">>,
     <<>>>>

LinguistListing == [ok |-> TRUE, lines |-> LinguistLines]

FetchOutcomes == {FetchError, LinguistListing}

\* The loop of _fetch_github_languages over response.text.split("\n").
ParseLanguages(lines) ==
    {lower(strip(BeforeColon(lines[i]))) : i \in
        {j \in DOMAIN lines :
            /\ lines[j] # <<>>
            /\ ~startswith(lines[j], str_space)
            /\ Contains(lines[j], str_colon)
            /\ strip(BeforeColon(lines[j])) # <<>>
            /\ ~startswith(strip(BeforeColon(lines[j])), str_hash)}}

\* Mutant of AddVariationsOf: the elif branch of lines 268-269 is left out.
AddVariationsOfPrefixOnly(skill) ==
    IF endswith(skill, str_js_suffix)
    THEN {SubSeq(skill, 1, Len(skill) - Len(str_js_suffix))}
    ELSE {}

\* The single-iteration body of _add_variations' loop.
AddVariationsOf(skill) ==
    IF endswith(skill, str_js_suffix)
    THEN {SubSeq(skill, 1, Len(skill) - Len(str_js_suffix))}
    ELSE IF skill \in JsFrameworkBases
         THEN {skill \o str_js_suffix}
         ELSE {}

add_variations(skills_in) == UNION {AddVariationsOf(s) : s \in skills_in}

\* The filter of line 101.
SingleLetterFilter(skills_in) ==
    {s \in skills_in : Len(s) > 1 \/ lower(s) = str_letter_r}

\* The cache artifact: absent, or the JSON array it holds.
NoFile == [exists |-> FALSE, data |-> <<>>]

\* A cache artifact this program did not write (a shipped or hand-kept
\* file, as the test fixture's): unsorted, one capitalised entry, and the
\* single letters c and r.
SeedData ==
    <<<<"D", "o", "c", "k", "e", "r">>,
     <<"a", "w", "s">>,
     <<"c">>,
     <<"n", "o", "d", "e", ".", "j", "s">>,
     <<"p", "y", "t", "h", "o", "n">>,
     <<"r">>,
     <<"s", "q", "l">>,
     <<"v", "u", "e", ".", "j", "s">>>>

SeedCache == [exists |-> TRUE, data |-> SeedData]

InitialCaches == {NoFile, SeedCache}

\* Mutant of PersistedSkills: the list is written in descending order.
PersistedDescending(skills_in) ==
    LET asc == SortedSet(skills_in)
    IN  [i \in DOMAIN asc |-> asc[Len(asc) + 1 - i]]

\* sorted(skills), the list json.dump writes at line 104.
PersistedSkills(skills_in) ==
    SortedSet(skills_in)

\* Mutant of LoadFromCache: the entries are taken as they are written.
LoadFromCacheVerbatim(data) ==
    Range(data)

\* set(s.lower() for s in data), the fast path of _load_or_build_skills.
LoadFromCache(data) == {lower(data[i]) : i \in DOMAIN data}

\* Mutant of BuildSkills: the exception of a failed fetch is not caught, so
\* nothing is built.
BuildSkillsFetchFatal(fetch) ==
    IF fetch.ok
    THEN LET with_curated == ParseLanguages(fetch.lines) \cup get_curated_tech_skills
         IN  SingleLetterFilter(with_curated \cup add_variations(with_curated))
    ELSE {}

\* The rebuild path of _load_or_build_skills, lines 87-101: the fetch is
\* best effort, then curated skills, derived variations and the filter.
BuildSkills(fetch) ==
    LET fetched_langs == IF fetch.ok THEN ParseLanguages(fetch.lines) ELSE {}
        with_curated  == fetched_langs \cup get_curated_tech_skills
        with_derived  == with_curated \cup add_variations(with_curated)
    IN  SingleLetterFilter(with_derived)

\* Mutant of VariationsOf: line 131 is left out, so a set holds only the
\* derived spellings.
VariationsOfDerivedOnly(skill) ==
    LET base == replace(skill, str_js_suffix, <<>>)
    IN  (IF Contains(skill, str_js_suffix)
         THEN {base, base \o str_js_bare} ELSE {})
        \cup (IF Contains(skill, str_dot)
              THEN {replace(skill, str_dot, <<>>)}
                   \cup (IF startswith(skill, str_dot)
                         THEN {str_dot_prefix \o Tail(skill)} ELSE {})
              ELSE {})
        \cup (IF Contains(skill, str_hyphen)
              THEN {replace(skill, str_hyphen, <<>>)} ELSE {})

\* The variation set _build_variation_map gives one skill.
VariationsOf(skill) ==
    LET canonical == lower(skill)
        base      == replace(skill, str_js_suffix, <<>>)
    IN  {canonical}
        \cup (IF Contains(skill, str_js_suffix)
              THEN {base, base \o str_js_bare} ELSE {})
        \cup (IF Contains(skill, str_dot)
              THEN {replace(skill, str_dot, <<>>)}
                   \cup (IF startswith(skill, str_dot)
                         THEN {str_dot_prefix \o Tail(skill)} ELSE {})
              ELSE {})
        \cup (IF Contains(skill, str_hyphen)
              THEN {replace(skill, str_hyphen, <<>>)} ELSE {})

\* _build_variation_map: canonical -> set of spellings.  Two skills with one
\* lowercase form share a key; the last one iterated would win, and they are
\* equal here because every skill is already lowercase.
build_variation_map(skills_in) ==
    [c \in {lower(s) : s \in skills_in} |->
        VariationsOf(CHOOSE s \in skills_in : lower(s) = c)]

(***************************************************************************)
(* Skill Extractor and Format Selector                                     *)
(***************************************************************************)

\* The argument of extract_best_format: None, or a str given as the tokens
\* self.nlp(text) yields.  The empty str has no tokens.
NoneText == [is_none |-> TRUE, tokens |-> <<>>]

Text(tokens) == [is_none |-> FALSE, tokens |-> tokens]

\* A token followed by whitespace, and one that is not.
Tok(s) == [text |-> s, ws |-> TRUE]

TokGlued(s) == [text |-> s, ws |-> FALSE]

\* range(1, 4): the window lengths of the sliding window.
MaxWindow == 3

\* doc[i : i + length].text: the tokens with the whitespace between them.
RECURSIVE SpanText(_, _, _)
SpanText(doc, i, length) ==
    IF length = 1 THEN doc[i].text
    ELSE doc[i].text \o (IF doc[i].ws THEN str_space ELSE <<>>)
         \o SpanText(doc, i + 1, length - 1)

\* found_skills = {}
EmptyFound == [k \in {} |-> <<>>]

\* if key not in found_skills: found_skills[key] = []
\* found_skills[key].append(surface)     -- for every key of a set at once
RecordAll(found, keys, surface) ==
    [k \in (DOMAIN found) \cup keys |->
        (IF k \in DOMAIN found THEN found[k] ELSE <<>>)
        \o (IF k \in keys THEN <<surface>> ELSE <<>>)]

\* Method 1, lines 306-311: single-token matching.
RECURSIVE SingleTokenPass(_, _, _, _)
SingleTokenPass(doc, i, found, skills_in) ==
    IF i > Len(doc) THEN found
    ELSE LET token_lower == lower(doc[i].text)
         IN  SingleTokenPass(doc, i + 1,
                 IF token_lower \in skills_in
                 THEN RecordAll(found, {token_lower}, doc[i].text)
                 ELSE found,
                 skills_in)

\* Mutant of WindowStep: the scan of the variation sets, lines 328-333, is
\* left out.
WindowStepTaxonomyOnly(doc, i, length, found, skills_in, variations_in) ==
    LET surface   == SpanText(doc, i, length)
        span_text == lower(surface)
    IN  IF span_text \in skills_in
        THEN RecordAll(found, {span_text}, surface)
        ELSE found

\* The body of the inner loop, lines 320-333, for one window: the taxonomy
\* check, then the scan of every (canonical, variation set) pair.  Each
\* canonical is appended to at most once by the scan, so the order in which
\* the dict is iterated does not show in any list.
WindowStep(doc, i, length, found, skills_in, variations_in) ==
    LET surface   == SpanText(doc, i, length)
        span_text == lower(surface)
        direct    == IF span_text \in skills_in
                     THEN RecordAll(found, {span_text}, surface)
                     ELSE found
        hits      == {c \in DOMAIN variations_in : span_text \in variations_in[c]}
    IN  RecordAll(direct, hits, surface)

\* Method 2, lines 315-333: for i in range(len(doc)), for length in 1..3,
\* with the break when the window runs past the document.
RECURSIVE SlidingWindowPass(_, _, _, _, _, _)
SlidingWindowPass(doc, i, length, found, skills_in, variations_in) ==
    IF i > Len(doc) THEN found
    ELSE IF length > MaxWindow \/ i + length - 1 > Len(doc)
         THEN SlidingWindowPass(doc, i + 1, 1, found, skills_in, variations_in)
         ELSE SlidingWindowPass(doc, i, length + 1,
                  WindowStep(doc, i, length, found, skills_in, variations_in),
                  skills_in, variations_in)

\* found_skills as extract_best_format has it at line 335.
FoundSkills(text, skills_in, variations_in) ==
    SlidingWindowPass(text.tokens, 1, 1,
        SingleTokenPass(text.tokens, 1, EmptyFound, skills_in),
        skills_in, variations_in)

SpecialChars == {"+", "#", ".", "-", "/"}

\* Mutant of format_quality_score: mixed case earns 1 point and all
\* lowercase 10.
format_quality_score_lower_first(format_str) ==
    (IF (\E i \in DOMAIN format_str : CharIsUpper(format_str[i]))
        /\ (\E i \in DOMAIN format_str : CharIsLower(format_str[i]))
     THEN 1 ELSE 0)
    + (IF \E i \in DOMAIN format_str : format_str[i] \in SpecialChars
       THEN 5 ELSE 0)
    + (IF isupper(format_str) /\ Len(format_str) > 1 THEN 2 ELSE 0)
    + (IF islower(format_str) THEN 10 ELSE 0)

\* _format_quality_score
format_quality_score(format_str) ==
    (IF (\E i \in DOMAIN format_str : CharIsUpper(format_str[i]))
        /\ (\E i \in DOMAIN format_str : CharIsLower(format_str[i]))
     THEN 10 ELSE 0)
    + (IF \E i \in DOMAIN format_str : format_str[i] \in SpecialChars
       THEN 5 ELSE 0)
    + (IF isupper(format_str) /\ Len(format_str) > 1 THEN 2 ELSE 0)
    + (IF islower(format_str) THEN 1 ELSE 0)

\* Counter(formats)[x]
CountOf(formats, x) == Cardinality({i \in DOMAIN formats : formats[i] = x})

\* The first position of formats at which f is maximal: what
\* Counter.most_common(1) and the stable sorted(..., reverse=True)[0] pick.
FirstArgMax(formats, f(_)) ==
    CHOOSE i \in DOMAIN formats :
        /\ \A j \in DOMAIN formats : f(formats[j]) <= f(formats[i])
        /\ \A j \in 1..(i - 1) : f(formats[j]) < f(formats[i])

\* Mutant of pick_best_format: the frequency test of lines 369-370 is left
\* out and the quality ranking decides alone.
pick_best_format_by_quality(formats) ==
    IF Len(formats) = 1 THEN formats[1]
    ELSE formats[FirstArgMax(formats, format_quality_score)]

\* _pick_best_format
pick_best_format(formats) ==
    IF Len(formats) = 1 THEN formats[1]
    ELSE LET Freq(x)     == CountOf(formats, x)
             most_common == formats[FirstArgMax(formats, Freq)]
         IN  IF Freq(most_common) > 1
             THEN most_common
             ELSE formats[FirstArgMax(formats, format_quality_score)]

\* Mutant of IsFalsy: the guard of line 299 lets every text through.
NeverFalsy(text) ==
    FALSE

\* not text (line 299): None and the empty str.
IsFalsy(text) ==
    text.is_none \/ text.tokens = <<>>

\* The number of times extract_best_format(text) invokes self.nlp: line 302
\* is reached only past the guard.
tokenizer_calls(text) ==
    IF IsFalsy(text) THEN 0 ELSE 1

\* self.nlp(text) raises when handed None.
tokenizer_raises(text) ==
    ~IsFalsy(text) /\ text.is_none

\* Mutant of extract_best_format: the canonical keys are returned in place
\* of the spellings observed in the text.
extract_canonical_keys(text, skills_in, variations_in) ==
    IF IsFalsy(text) THEN <<>>
    ELSE SortedSet(DOMAIN FoundSkills(text, skills_in, variations_in))

\* extract_best_format: one best format per key of found_skills, sorted.
\* sorted() erases the order in which the dict yields its keys, so the keys
\* are taken in ascending order here.
extract_best_format(text, skills_in, variations_in) ==
    IF IsFalsy(text) THEN <<>>
    ELSE LET found == FoundSkills(text, skills_in, variations_in)
             keys  == SortedSet(DOMAIN found)
         IN  sorted([i \in DOMAIN keys |-> pick_best_format(found[keys[i]])])


(***************************************************************************)
(* Extraction with the dict orders made explicit                           *)
(***************************************************************************)

\* found_skills as the dict it is: the (key, formats) pairs in insertion
\* order.  items_order is the order in which self.skill_variations.items()
\* yields the canonicals; it follows the iteration order of the set
\* self.skills (lines 129-131), which the hash seed of the process fixes.

\* The position of key in the dict, 0 when absent.
PositionOf(found, key) ==
    IF \E i \in DOMAIN found : found[i].key = key
    THEN CHOOSE i \in DOMAIN found : found[i].key = key
    ELSE 0

\* if key not in found_skills: found_skills[key] = []
\* found_skills[key].append(surface)
AppendFormat(found, key, surface) ==
    IF PositionOf(found, key) = 0
    THEN Append(found, [key |-> key, formats |-> <<surface>>])
    ELSE [found EXCEPT ![PositionOf(found, key)].formats = Append(@, surface)]

\* Method 1, lines 306-311, on the ordered dict.
RECURSIVE SingleTokenPassInOrder(_, _, _, _)
SingleTokenPassInOrder(doc, i, found, skills_in) ==
    IF i > Len(doc) THEN found
    ELSE LET token_lower == lower(doc[i].text)
         IN  SingleTokenPassInOrder(doc, i + 1,
                 IF token_lower \in skills_in
                 THEN AppendFormat(found, token_lower, doc[i].text)
                 ELSE found,
                 skills_in)

\* Lines 328-333: for canonical, vars in self.skill_variations.items(),
\* from position j of items_order on.
RECURSIVE VariationScan(_, _, _, _, _, _)
VariationScan(found, span_text, surface, variations_in, items_order, j) ==
    IF j > Len(items_order) THEN found
    ELSE VariationScan(
             IF span_text \in variations_in[items_order[j]]
             THEN AppendFormat(found, items_order[j], surface)
             ELSE found,
             span_text, surface, variations_in, items_order, j + 1)

\* Lines 320-333 for one window, on the ordered dict.
WindowStepInOrder(doc, i, length, found, skills_in, variations_in, items_order) ==
    LET surface   == SpanText(doc, i, length)
        span_text == lower(surface)
        direct    == IF span_text \in skills_in
                     THEN AppendFormat(found, span_text, surface)
                     ELSE found
    IN  VariationScan(direct, span_text, surface, variations_in, items_order, 1)

\* Method 2, lines 315-333, on the ordered dict.
RECURSIVE SlidingWindowPassInOrder(_, _, _, _, _, _, _)
SlidingWindowPassInOrder(doc, i, length, found, skills_in, variations_in, items_order) ==
    IF i > Len(doc) THEN found
    ELSE IF length > MaxWindow \/ i + length - 1 > Len(doc)
         THEN SlidingWindowPassInOrder(doc, i + 1, 1, found, skills_in,
                                       variations_in, items_order)
         ELSE SlidingWindowPassInOrder(doc, i, length + 1,
                  WindowStepInOrder(doc, i, length, found, skills_in,
                                    variations_in, items_order),
                  skills_in, variations_in, items_order)

\* Lines 335-339: result, one best format per key in the dict's order.
BestFormatsInOrder(text, skills_in, variations_in, items_order) ==
    LET found == SlidingWindowPassInOrder(text.tokens, 1, 1,
                     SingleTokenPassInOrder(text.tokens, 1, <<>>, skills_in),
                     skills_in, variations_in, items_order)
    IN  [i \in DOMAIN found |-> pick_best_format(found[i].formats)]

\* Mutant of extract_in_order: line 341 returns result as it stands.
extract_in_order_unsorted(text, skills_in, variations_in, items_order) ==
    IF IsFalsy(text) THEN <<>>
    ELSE BestFormatsInOrder(text, skills_in, variations_in, items_order)

\* extract_best_format, lines 299-341, when the variation dict yields its
\* items in items_order.
extract_in_order(text, skills_in, variations_in, items_order) ==
    IF IsFalsy(text) THEN <<>>
    ELSE sorted(BestFormatsInOrder(text, skills_in, variations_in, items_order))
(***************************************************************************)
(* Matcher: ResumeJobMatcher.match_skills                                  *)
(***************************************************************************)

\* {s.lower(): s for s in skill_list}: a later entry replaces an earlier
\* one with the same lowercase form.
DisplayMap(skill_list) ==
    [k \in {lower(skill_list[i]) : i \in DOMAIN skill_list} |->
        skill_list[CHOOSE i \in DOMAIN skill_list :
            /\ lower(skill_list[i]) = k
            /\ \A j \in (i + 1)..Len(skill_list) : lower(skill_list[j]) # k]]

\* job_keys & resume_keys
MatchedKeys(job_keys, resume_keys) == job_keys \cap resume_keys

\* Mutant of MissingKeys: the candidate's keys are not subtracted.
MissingKeysNotSubtracted(job_keys, resume_keys) == job_keys

\* job_keys - resume_keys
MissingKeys(job_keys, resume_keys) == job_keys \ resume_keys

\* round(score, 2) keeps two decimals.
ScoreDecimals == 2

RECURSIVE Pow10(_)
Pow10(n) == IF n = 0 THEN 1 ELSE 10 * Pow10(n - 1)

\* Mutant of RoundFraction: the digits beyond `decimals` are cut off.
RoundFractionTruncating(num, den, decimals) ==
    (num * Pow10(decimals)) \div den

\* round(x, decimals) of the fraction x = num/den, in units of
\* 10^-decimals, ties to even.  The float the code rounds is the double
\* nearest to the fraction; the two agree except within an ulp of a tie.
RoundFraction(num, den, decimals) ==
    LET scaled == num * Pow10(decimals)
        q      == scaled \div den
        r      == scaled % den
    IN  IF 2 * r > den THEN q + 1
        ELSE IF 2 * r < den THEN q
        ELSE IF q % 2 = 0 THEN q ELSE q + 1

\* Mutant of RoundedScore: round(score, 1), one decimal kept.
RoundedScoreOneDecimal(n_matched, n_job) ==
    10 * RoundFraction(100 * n_matched, n_job, ScoreDecimals - 1)

\* round((matched / total) * 100, 2), in hundredths.
RoundedScore(n_matched, n_job) ==
    RoundFraction(100 * n_matched, n_job, ScoreDecimals)

\* The value of a float that is a whole percentage (100.0 is 10000).
Percent(p) == p * Pow10(ScoreDecimals)

\* f"{len(matched_keys)}/{len(job_keys)}"
FormatRatio(n_matched, n_job) ==
    FormatInt(n_matched) \o str_slash \o FormatInt(n_job)

\* The verdict line of _explain, decided on the unrounded score num/den.
\* The report keeps it as explanation.headline, the score it prints as
\* shown_score and the two listed lines as matched_line and missing_line
\* (a line is absent when its list is empty).
Verdict(num, den) ==
    IF num >= 80 * den THEN "Strong match"
    ELSE IF num >= 60 * den THEN "Good match"
    ELSE IF num >= 40 * den THEN "Partial match"
    ELSE "Weak match"

NoSkillsMessage == "No skills found in job description"

\* _empty_result
empty_result(message) ==
    [status |-> "ok",
     matched_keywords |-> <<>>,
     missing_keywords |-> <<>>,
     score |-> 0,
     match_ratio |-> <<"0", "/", "0">>,
     explanation |-> [headline |-> message, shown_score |-> <<>>,
                      matched_line |-> <<>>, missing_line |-> <<>>]]

\* What the caller sees when a line of match_skills raises.
Raised(exception) ==
    [status |-> exception,
     matched_keywords |-> <<>>,
     missing_keywords |-> <<>>,
     score |-> 0,
     match_ratio |-> <<>>,
     explanation |-> [headline |-> exception, shown_score |-> <<>>,
                      matched_line |-> <<>>, missing_line |-> <<>>]]

\* Lines 498-506 as a function of len(matched_keys) and len(job_keys):
\* the score, the ratio and the verdict of a report.  The division of
\* line 499 raises on an empty job_keys.
score_fields(n_matched, n_job) ==
    IF n_job = 0
    THEN [status |-> "ZeroDivisionError", score |-> 0, match_ratio |-> <<>>,
          headline |-> "ZeroDivisionError", shown_score |-> <<>>]
    ELSE [status |-> "ok",
          score |-> RoundedScore(n_matched, n_job),
          match_ratio |-> FormatRatio(n_matched, n_job),
          headline |-> Verdict(100 * n_matched, n_job),
          shown_score |-> <<100 * n_matched, n_job>>]

\* Lines 494-507: the display lists and the report.
scored_result(job_map, matched_keys, missing_keys, job_keys) ==
    LET sorted_matched  == SortedSet(matched_keys)
        sorted_missing  == SortedSet(missing_keys)
        matched_display == [i \in DOMAIN sorted_matched |-> job_map[sorted_matched[i]]]
        missing_display == [i \in DOMAIN sorted_missing |-> job_map[sorted_missing[i]]]
        fields          == score_fields(Cardinality(matched_keys), Cardinality(job_keys))
    IN  IF fields.status # "ok" THEN Raised(fields.status)
        ELSE [status |-> "ok",
              matched_keywords |-> matched_display,
              missing_keywords |-> missing_display,
              score |-> fields.score,
              match_ratio |-> fields.match_ratio,
              explanation |-> [headline |-> fields.headline,
                               shown_score |-> fields.shown_score,
                               matched_line |-> matched_display,
                               missing_line |-> missing_display]]

\* Mutant of match_report: the guard of line 491 is missing.
match_report_unguarded(job_skills, resume_skills) ==
    LET job_map     == DisplayMap(job_skills)
        resume_map  == DisplayMap(resume_skills)
        job_keys    == DOMAIN job_map
        resume_keys == DOMAIN resume_map
    IN  scored_result(job_map, MatchedKeys(job_keys, resume_keys),
                      MissingKeys(job_keys, resume_keys), job_keys)

\* Mutant of match_report: a matched key is displayed from resume_map.
match_report_candidate_display(job_skills, resume_skills) ==
    LET job_map     == DisplayMap(job_skills)
        resume_map  == DisplayMap(resume_skills)
        job_keys    == DOMAIN job_map
        resume_keys == DOMAIN resume_map
        shown       == [k \in job_keys |->
                           IF k \in resume_keys THEN resume_map[k] ELSE job_map[k]]
    IN  IF job_keys = {} THEN empty_result(NoSkillsMessage)
        ELSE scored_result(shown, MatchedKeys(job_keys, resume_keys),
                           MissingKeys(job_keys, resume_keys), job_keys)

\* Mutant of match_report: the score counts the candidate's keys, not the
\* matched ones.
match_report_counting_resume(job_skills, resume_skills) ==
    LET job_map     == DisplayMap(job_skills)
        resume_map  == DisplayMap(resume_skills)
        job_keys    == DOMAIN job_map
        resume_keys == DOMAIN resume_map
        honest      == scored_result(job_map, MatchedKeys(job_keys, resume_keys),
                                     MissingKeys(job_keys, resume_keys), job_keys)
    IN  IF job_keys = {} THEN empty_result(NoSkillsMessage)
        ELSE [honest EXCEPT !.score =
                 RoundedScore(Cardinality(resume_keys), Cardinality(job_keys))]

\* Mutant of match_report: the score divides by the skills of both texts,
\* so that a candidate skill the requirement lacks lowers it.
match_report_over_union(job_skills, resume_skills) ==
    LET job_map     == DisplayMap(job_skills)
        resume_map  == DisplayMap(resume_skills)
        job_keys    == DOMAIN job_map
        resume_keys == DOMAIN resume_map
        honest      == scored_result(job_map, MatchedKeys(job_keys, resume_keys),
                                     MissingKeys(job_keys, resume_keys), job_keys)
    IN  IF job_keys = {} THEN empty_result(NoSkillsMessage)
        ELSE [honest EXCEPT !.score =
                 RoundedScore(Cardinality(MatchedKeys(job_keys, resume_keys)),
                              Cardinality(job_keys \cup resume_keys))]

\* Lines 480-507: match_skills after the two extractions.
match_report(job_skills, resume_skills) ==
    LET job_map      == DisplayMap(job_skills)
        resume_map   == DisplayMap(resume_skills)
        job_keys     == DOMAIN job_map
        resume_keys  == DOMAIN resume_map
        matched_keys == MatchedKeys(job_keys, resume_keys)
        missing_keys == MissingKeys(job_keys, resume_keys)
    IN  IF job_keys = {} THEN empty_result(NoSkillsMessage)
        ELSE scored_result(job_map, matched_keys, missing_keys, job_keys)

(***************************************************************************)
(* Inputs of the model                                                     *)
(***************************************************************************)

\* The longest job description and the longest resume, in tokens.
MaxJobTokens == 3

MaxResumeTokens == 2

\* The largest key-set size the size-level specification enumerates in full.
MaxSizedSkills == 14

\* Three distinct curated skills.
StackLexicon ==
    {Tok(<<"D", "o", "c", "k", "e", "r">>),
     Tok(<<"A", "W", "S">>),
     Tok(<<"S", "Q", "L">>)}

\* One skill in two case variants, one of them mixed case.
CaseLexicon ==
    {Tok(<<"p", "y", "t", "h", "o", "n">>),
     Tok(<<"P", "y", "t", "h", "o", "n">>)}

\* A canonical spelling and a variation spelling of it that is no skill.
VariationLexicon ==
    {Tok(<<"V", "u", "e", ".", "j", "s">>),
     Tok(<<"v", "u", "e", "j", "s">>)}

\* A canonical spelling and the prefix of it that _add_variations registers
\* as a skill of its own.
PrefixLexicon ==
    {Tok(<<"V", "u", "e">>),
     Tok(<<"V", "u", "e", ".", "j", "s">>)}

\* The single letters.
LetterLexicon ==
    {Tok(<<"C">>),
     Tok(<<"R">>)}

\* The two words of a curated skill that spans two tokens.
PhraseLexicon ==
    {Tok(<<"G", "o", "o", "g", "l", "e">>),
     Tok(<<"C", "l", "o", "u", "d">>)}

\* Two skills, the alphabetically first written in lowercase and the other
\* capitalised.
MixedCaseLexicon ==
    {Tok(<<"a", "w", "s">>),
     Tok(<<"P", "y", "t", "h", "o", "n">>)}

\* Documents are written over one lexicon at a time.
Lexicons ==
    {StackLexicon, CaseLexicon, VariationLexicon, PrefixLexicon, LetterLexicon,
     PhraseLexicon, MixedCaseLexicon}

\* The documents of at most n tokens over a lexicon.
TextsOver(lexicon, n) ==
    {Text(doc) : doc \in UNION {[1..k -> lexicon] : k \in 0..n}}

(***************************************************************************)
(* State                                                                   *)
(***************************************************************************)

VARIABLES
    cache,             \* the cache artifact combined_skills.json
    constructed,       \* whether NLPSkillExtractor.__init__ has returned
    skills,            \* self.skills
    skill_variations,  \* self.skill_variations
    init_path,         \* which branch of _load_or_build_skills ran
    init_runs,         \* how many times _load_or_build_skills has run
    fetched,           \* what _fetch_github_languages did in __init__
    call,              \* the last call made on the extractor or the matcher
    extracted,         \* what the last extract_best_format call returned
    job_skills,        \* match_skills' local job_skills (line 477)
    resume_skills,     \* match_skills' local resume_skills (line 478)
    report,            \* what the last match_skills call returned
    nlp_calls,         \* how many times the last call invoked self.nlp
    raised,            \* whether the last extract_best_format call raised
    sized,             \* the score fields of a match given by its set sizes
    inits,             \* each concurrent initialization's position and flags
    cache_writers,     \* the initializations holding the cache artifact open for writing
    callers,           \* each concurrent caller's position in its call and its locals
    frames,            \* found_skills of each call frame of extract_best_format
    selection          \* the last _pick_best_format call: its argument and its value

vars == <<cache, constructed, skills, skill_variations, init_path,
          init_runs, fetched, call, extracted, job_skills,
          resume_skills, report, nlp_calls, raised, sized,
          inits, cache_writers, callers, frames, selection>>

\* The initializations that may run at the same time.
MaxInitializers == 2

Initializers == 1..MaxInitializers

\* An initialization that has not been started.
NotStarted == [pc |-> "idle", auto_update |-> FALSE, fetch_ok |-> FALSE,
               read_partial |-> FALSE]

NoSized == [n_matched |-> 0, n_job |-> 0, n_missing |-> 0, status |-> "none",
            score |-> 0, match_ratio |-> <<>>, headline |-> ""]

NotFetched == [called |-> FALSE, ok |-> FALSE, languages |-> {}]

NoCall == [op |-> "none", text |-> NoneText,
           resume_text |-> NoneText, job_desc |-> NoneText]

NoReport ==
    [status |-> "none",
     matched_keywords |-> <<>>,
     missing_keywords |-> <<>>,
     score |-> 0,
     match_ratio |-> <<>>,
     explanation |-> [headline |-> "", shown_score |-> <<>>,
                      matched_line |-> <<>>, missing_line |-> <<>>]]

\* The callers that may be inside extract_best_format or match_skills of
\* the one extractor at the same time.
MaxCallers == 2

Callers == 1..MaxCallers

\* A caller that is in no call.
NotCalling ==
    [pc |-> "idle", op |-> "none", stage |-> "none", text |-> NoneText,
     resume_text |-> NoneText, job_desc |-> NoneText, returned |-> <<>>,
     job_skills |-> <<>>, resume_skills |-> <<>>, result |-> <<>>,
     report |-> NoReport]

\* No _pick_best_format call yet.
NoSelection == [formats |-> <<>>, best |-> <<>>]

Init ==
    /\ cache \in InitialCaches
    /\ constructed = FALSE
    /\ skills = {}
    /\ skill_variations = [c \in {} |-> {}]
    /\ init_path = "none"
    /\ init_runs = 0
    /\ fetched = NotFetched
    /\ call = NoCall
    /\ extracted = <<>>
    /\ job_skills = <<>>
    /\ resume_skills = <<>>
    /\ report = NoReport
    /\ nlp_calls = 0
    /\ raised = FALSE
    /\ sized = NoSized
    /\ inits = [p \in Initializers |-> NotStarted]
    /\ cache_writers = {}
    /\ callers = [p \in Callers |-> NotCalling]
    /\ frames = [p \in Callers |-> EmptyFound]
    /\ selection = NoSelection

(***************************************************************************)
(* Operations                                                              *)
(***************************************************************************)

\* NLPSkillExtractor(auto_update), fast path: lines 81-85, then line 61.
ConstructFromCache(auto_update) ==
    /\ ~constructed
    /\ ~auto_update /\ cache.exists
    /\ skills' = LoadFromCache(cache.data)
    /\ skill_variations' = build_variation_map(LoadFromCache(cache.data))
    /\ init_path' = "load"
    /\ init_runs' = init_runs + 1
    /\ fetched' = NotFetched
    /\ constructed' = TRUE
    /\ UNCHANGED <<cache, call, extracted, job_skills, resume_skills, report,
                   nlp_calls, raised, sized, inits, cache_writers, callers, frames, selection>>

\* NLPSkillExtractor(auto_update), rebuild path: lines 87-108, then line 61.
\* The fetch raises or returns; either way the build goes on and the cache
\* artifact is written with the sorted result.
ConstructByRebuild(auto_update, fetch) ==
    /\ ~constructed
    /\ auto_update \/ ~cache.exists
    /\ skills' = BuildSkills(fetch)
    /\ skill_variations' = build_variation_map(BuildSkills(fetch))
    /\ cache' = [exists |-> TRUE, data |-> PersistedSkills(BuildSkills(fetch))]
    /\ init_path' = "rebuild"
    /\ init_runs' = init_runs + 1
    /\ fetched' = [called |-> TRUE, ok |-> fetch.ok,
                   languages |-> IF fetch.ok THEN ParseLanguages(fetch.lines) ELSE {}]
    /\ constructed' = TRUE
    /\ UNCHANGED <<call, extracted, job_skills, resume_skills, report,
                   nlp_calls, raised, sized, inits, cache_writers, callers, frames, selection>>

\* extractor.extract_best_format(text)
Extract(text) ==
    /\ constructed /\ call.op = "none"
    /\ call' = [op |-> "extract", text |-> text,
                resume_text |-> NoneText, job_desc |-> NoneText]
    /\ nlp_calls' = tokenizer_calls(text)
    /\ raised' = tokenizer_raises(text)
    /\ extracted' = IF tokenizer_raises(text) THEN <<>>
                    ELSE extract_best_format(text, skills, skill_variations)
    /\ job_skills' = <<>>
    /\ resume_skills' = <<>>
    /\ report' = NoReport
    /\ UNCHANGED <<cache, constructed, skills, skill_variations, init_path,
                   init_runs, fetched, sized, inits,
                   cache_writers, callers, frames, selection>>

\* matcher.match_skills(resume_text, job_desc): the two extractions of
\* lines 477-478, then lines 480-507 on their results.
Match(resume_text, job_desc) ==
    /\ constructed /\ call.op = "none"
    /\ call' = [op |-> "match", text |-> NoneText,
                resume_text |-> resume_text, job_desc |-> job_desc]
    /\ job_skills' = extract_best_format(job_desc, skills, skill_variations)
    /\ resume_skills' = extract_best_format(resume_text, skills, skill_variations)
    /\ report' = match_report(job_skills', resume_skills')
    /\ nlp_calls' = tokenizer_calls(job_desc) + tokenizer_calls(resume_text)
    /\ raised' = FALSE
    /\ extracted' = <<>>
    /\ UNCHANGED <<cache, constructed, skills, skill_variations, init_path,
                   init_runs, fetched, sized, inits,
                   cache_writers, callers, frames, selection>>

\* The caller takes the returned value; the extractor is free for the next
\* call.  Calls are synchronous, so one is in progress at a time.
Return ==
    /\ call.op # "none"
    /\ call' = NoCall
    /\ extracted' = <<>>
    /\ job_skills' = <<>>
    /\ resume_skills' = <<>>
    /\ report' = NoReport
    /\ nlp_calls' = 0
    /\ raised' = FALSE
    /\ UNCHANGED <<cache, constructed, skills, skill_variations, init_path,
                   init_runs, fetched, sized, inits,
                   cache_writers, callers, frames, selection>>

Next ==
    \/ \E auto_update \in BOOLEAN : ConstructFromCache(auto_update)
    \/ \E auto_update \in BOOLEAN, fetch \in FetchOutcomes :
           ConstructByRebuild(auto_update, fetch)
    \/ \E lexicon \in Lexicons :
           \E text \in TextsOver(lexicon, MaxJobTokens) \cup {NoneText} : Extract(text)
    \/ \E lexicon \in Lexicons :
           \E resume_text \in TextsOver(lexicon, MaxResumeTokens),
              job_desc \in TextsOver(lexicon, MaxJobTokens) :
               Match(resume_text, job_desc)
    \/ Return

Spec == Init /\ [][Next]_vars

(***************************************************************************)
(* The arithmetic of match_skills on key sets of any size                  *)
(***************************************************************************)

\* The score of a report depends on the two texts only through
\* len(matched_keys) and len(job_keys).  This specification runs lines
\* 491-506 on the sizes themselves, which reaches requirement sets far
\* larger than a document of MaxJobTokens tokens can name.

\* The smallest requirement set in which one missing skill is within half a
\* hundredth of 100 percent: 2 * 10^(2 + ScoreDecimals).
RoundingOnset == 2 * Pow10(ScoreDecimals + 2)

JobSizes ==
    (0..MaxSizedSkills) \cup {RoundingOnset - 1, RoundingOnset, RoundingOnset + 1}

\* The scores at which _explain changes its verdict (lines 532-536).
VerdictThresholds == {80, 60, 40}

\* matched_keys is a subset of job_keys.  Beside the small sizes and the
\* near-full ones, the largest size at or below each verdict threshold.
MatchedSizes(n_job) ==
    {m \in (0..MaxSizedSkills) \cup {n_job - 2, n_job - 1, n_job}
            \cup {(t * n_job) \div 100 : t \in VerdictThresholds} :
        0 <= m /\ m <= n_job}

\* match_skills when job_keys has n_job members, n_matched of them in
\* resume_keys: the empty result of line 492, or the fields of lines 498-506.
MatchBySize(n_matched, n_job) ==
    /\ sized' =
         IF n_job = 0
         THEN [n_matched |-> 0, n_job |-> 0, n_missing |-> 0, status |-> "ok",
               score |-> empty_result(NoSkillsMessage).score,
               match_ratio |-> empty_result(NoSkillsMessage).match_ratio,
               headline |-> NoSkillsMessage]
         ELSE LET fields == score_fields(n_matched, n_job)
              IN  [n_matched |-> n_matched, n_job |-> n_job,
                   n_missing |-> n_job - n_matched, status |-> fields.status,
                   score |-> fields.score, match_ratio |-> fields.match_ratio,
                   headline |-> fields.headline]
    /\ UNCHANGED <<cache, constructed, skills, skill_variations, init_path,
                   init_runs, fetched, call, extracted, job_skills,
                   resume_skills, report, nlp_calls, raised, inits,
                   cache_writers, callers, frames, selection>>

InitSized == Init /\ cache = NoFile

NextSized ==
    \E n_job \in JobSizes : \E n_matched \in MatchedSizes(n_job) :
        MatchBySize(n_matched, n_job)

SpecSized == InitSized /\ [][NextSized]_vars


(***************************************************************************)
(* Extraction under every iteration order of the variation dict            *)
(***************************************************************************)

\* Two small cache artifacts.  In the first the spelling "vuejs" is a
\* registered variation of two canonicals and a member of no taxonomy, so
\* one window creates two found_skills entries in the order the dict
\* yields them.
CollidingData ==
    <<<<"v", "u", "e", "-", "j", "s">>,
      <<"v", "u", "e", ".", "j", "s">>>>

SmallData ==
    <<<<"p", "y", "t", "h", "o", "n">>,
      <<"v", "u", "e">>,
      <<"v", "u", "e", ".", "j", "s">>>>

OrderCaches ==
    {[exists |-> TRUE, data |-> CollidingData],
     [exists |-> TRUE, data |-> SmallData]}

OrderLexicon ==
    {Tok(<<"v", "u", "e", "j", "s">>),
     Tok(<<"V", "u", "e">>),
     Tok(<<"p", "y", "t", "h", "o", "n">>),
     Tok(<<"P", "y", "t", "h", "o", "n">>)}

\* The orders in which a dict with the keys of S can yield them.
ItemOrders(S) ==
    {f \in [1..Cardinality(S) -> S] : \A i, j \in DOMAIN f : f[i] = f[j] => i = j}

\* extractor.extract_best_format(text) in a process whose variation dict
\* yields its items in items_order.
ExtractInOrder(text, items_order) ==
    /\ constructed /\ call.op = "none"
    /\ call' = [op |-> "extract", text |-> text,
                resume_text |-> NoneText, job_desc |-> NoneText]
    /\ nlp_calls' = tokenizer_calls(text)
    /\ raised' = tokenizer_raises(text)
    /\ extracted' = IF tokenizer_raises(text) THEN <<>>
                    ELSE extract_in_order(text, skills, skill_variations, items_order)
    /\ job_skills' = <<>>
    /\ resume_skills' = <<>>
    /\ report' = NoReport
    /\ UNCHANGED <<cache, constructed, skills, skill_variations, init_path,
                   init_runs, fetched, sized, inits,
                   cache_writers, callers, frames, selection>>

InitOrder ==
    /\ cache \in OrderCaches
    /\ constructed = FALSE
    /\ skills = {}
    /\ skill_variations = [c \in {} |-> {}]
    /\ init_path = "none"
    /\ init_runs = 0
    /\ fetched = NotFetched
    /\ call = NoCall
    /\ extracted = <<>>
    /\ job_skills = <<>>
    /\ resume_skills = <<>>
    /\ report = NoReport
    /\ nlp_calls = 0
    /\ raised = FALSE
    /\ sized = NoSized
    /\ inits = [p \in Initializers |-> NotStarted]
    /\ cache_writers = {}
    /\ callers = [p \in Callers |-> NotCalling]
    /\ frames = [p \in Callers |-> EmptyFound]
    /\ selection = NoSelection

NextOrder ==
    \/ ConstructFromCache(FALSE)
    \/ \E text \in TextsOver(OrderLexicon, MaxJobTokens) :
           \E items_order \in ItemOrders(DOMAIN skill_variations) :
               ExtractInOrder(text, items_order)
    \/ Return

SpecOrder == InitOrder /\ [][NextOrder]_vars

(***************************************************************************)
(* Analysis requests                                                       *)
(***************************************************************************)

\* The requests one process handles before the model stops counting.
MaxRequests == 2

\* The words of the uploaded job descriptions and resumes.
RequestLexicon ==
    {Tok(<<"D", "o", "c", "k", "e", "r">>),
     Tok(<<"V", "u", "e">>)}

\* POST /analysis/ (routes/analyze.py, lines 90-102): the route builds a
\* ResumeAgent and calls analyze_invoke_async, which passes
\* deps=ResumeAgentDeps() (agent_setup.py, line 188).  ResumeAgentDeps()
\* constructs NLPSkillExtractor() with auto_update left False (lines 93-94),
\* so _load_or_build_skills runs inside the request: the cache path when
\* the cache artifact exists, the rebuild path with its fetch and its write
\* otherwise.  The analyze_skills tool (tools.py, lines 63-83) extracts
\* job_skills and resume_skills with the extractor of these deps (lines
\* 65-66) and calls match_skills on the same two texts (line 73), whose own
\* extractions give the same two lists; the tool returns the two lists
\* beside the fields of the report.
AnalyzeRequest(resume_text, job_desc, fetch) ==
    LET loads      == cache.exists
        new_skills == IF loads THEN LoadFromCache(cache.data) ELSE BuildSkills(fetch)
        new_vars   == build_variation_map(new_skills)
    IN  /\ call.op = "none"
        /\ init_runs < MaxRequests
        /\ skills' = new_skills
        /\ skill_variations' = new_vars
        /\ cache' = IF loads THEN cache
                    ELSE [exists |-> TRUE, data |-> SortedSet(new_skills)]
        /\ init_path' = IF loads THEN "load" ELSE "rebuild"
        /\ init_runs' = init_runs + 1
        /\ fetched' = IF loads THEN NotFetched
                      ELSE [called |-> TRUE, ok |-> fetch.ok,
                            languages |-> IF fetch.ok
                                          THEN ParseLanguages(fetch.lines) ELSE {}]
        /\ constructed' = TRUE
        /\ call' = [op |-> "match", text |-> NoneText,
                    resume_text |-> resume_text, job_desc |-> job_desc]
        /\ job_skills' = extract_best_format(job_desc, new_skills, new_vars)
        /\ resume_skills' = extract_best_format(resume_text, new_skills, new_vars)
        /\ report' = match_report(job_skills', resume_skills')
        /\ nlp_calls' = tokenizer_calls(job_desc) + tokenizer_calls(resume_text)
        /\ raised' = FALSE
        /\ extracted' = <<>>
        /\ UNCHANGED <<sized, inits, cache_writers, callers, frames, selection>>

NextRequests ==
    \/ \E resume_text \in TextsOver(RequestLexicon, MaxResumeTokens),
          job_desc \in TextsOver(RequestLexicon, MaxResumeTokens),
          fetch \in FetchOutcomes :
           AnalyzeRequest(resume_text, job_desc, fetch)
    \/ Return

SpecRequests == Init /\ [][NextRequests]_vars

(***************************************************************************)
(* Initializations running at the same time                                *)
(***************************************************************************)

\* Several NLPSkillExtractor(auto_update) constructions, in threads or in
\* server processes started in the same directory, share the cache artifact
\* CACHE_FILE.  _load_or_build_skills takes no lock, so each of its file
\* operations is a step that the others' steps may come between.  The
\* artifact is partly written from the moment open(cache_path, "w")
\* truncates it until the with block of lines 103-104 closes it.

\* What belongs to the single extractor of the other specifications.
single_extractor_vars ==
    <<constructed, skills, skill_variations, init_path, init_runs, fetched, call, extracted, job_skills, resume_skills, report,
      nlp_calls, raised, sized, callers, frames, selection>>

\* Line 81: the test that chooses the path.
CheckCache(p, auto_update) ==
    /\ inits[p].pc = "idle"
    /\ inits' = [inits EXCEPT ![p] =
                    [@ EXCEPT !.auto_update = auto_update,
                              !.pc = IF ~auto_update /\ cache.exists
                                     THEN "reading" ELSE "fetching"]]
    /\ UNCHANGED <<cache, cache_writers, single_extractor_vars>>

\* Lines 82-85: open the artifact and json.load it.  While a writer holds
\* it open the content is not a complete JSON document and json.load raises.
ReadCache(p) ==
    /\ inits[p].pc = "reading"
    /\ inits' = [inits EXCEPT ![p] =
                    [@ EXCEPT !.read_partial = (cache_writers # {}),
                              !.pc = IF cache_writers # {} THEN "raised" ELSE "done"]]
    /\ UNCHANGED <<cache, cache_writers, single_extractor_vars>>

\* Lines 87-101: the fetch, which raises or returns, and the build.
FetchAndBuild(p, fetch) ==
    /\ inits[p].pc = "fetching"
    /\ inits' = [inits EXCEPT ![p] = [@ EXCEPT !.fetch_ok = fetch.ok,
                                               !.pc = "opening"]]
    /\ UNCHANGED <<cache, cache_writers, single_extractor_vars>>

\* Line 103: open(cache_path, "w") creates or truncates the artifact.
OpenForWrite(p) ==
    /\ inits[p].pc = "opening"
    /\ cache' = [exists |-> TRUE, data |-> <<>>]
    /\ cache_writers' = cache_writers \cup {p}
    /\ inits' = [inits EXCEPT ![p] = [@ EXCEPT !.pc = "writing"]]
    /\ UNCHANGED single_extractor_vars

\* Line 104 and the end of the with block: json.dump(sorted(skills)) and
\* the close that flushes it.
DumpAndClose(p) ==
    /\ inits[p].pc = "writing"
    /\ cache' = [exists |-> TRUE,
                 data |-> SortedSet(BuildSkills(IF inits[p].fetch_ok
                                                THEN LinguistListing
                                                ELSE FetchError))]
    /\ cache_writers' = cache_writers \ {p}
    /\ inits' = [inits EXCEPT ![p] = [@ EXCEPT !.pc = "done"]]
    /\ UNCHANGED single_extractor_vars

NextConcurrentInit ==
    \/ \E p \in Initializers, auto_update \in BOOLEAN : CheckCache(p, auto_update)
    \/ \E p \in Initializers : ReadCache(p)
    \/ \E p \in Initializers, fetch \in FetchOutcomes : FetchAndBuild(p, fetch)
    \/ \E p \in Initializers : OpenForWrite(p)
    \/ \E p \in Initializers : DumpAndClose(p)

SpecConcurrentInit == Init /\ [][NextConcurrentInit]_vars

(***************************************************************************)
(* Calls on one extractor running at the same time                         *)
(***************************************************************************)

\* Several callers (threads of one process) hold the same NLPSkillExtractor
\* and ResumeJobMatcher.  extract_best_format and match_skills take no lock,
\* so the phases of one call may come between the phases of another.  Every
\* name the two methods assign is a local of the call's own frame
\* (doc, found_skills, result, job_skills, ...); self.skills and
\* self.skill_variations are only read.  self.nlp is the spaCy pipeline,
\* taken here as the function of the text that its tokenization is.

\* The texts the callers pass: one naming a skill in two cases, one naming
\* two skills, and the empty text.
CallerTexts ==
    {Text(<<Tok(<<"p", "y", "t", "h", "o", "n">>), Tok(<<"P", "y", "t", "h", "o", "n">>)>>),
     Text(<<Tok(<<"V", "u", "e", ".", "j", "s">>), Tok(<<"A", "W", "S">>)>>),
     Text(<<>>)}

\* The job description of the callers' match_skills calls.
CallerJobTexts ==
    {Text(<<Tok(<<"P", "y", "t", "h", "o", "n">>), Tok(<<"A", "W", "S">>)>>)}

\* Mutant of FrameOf: found_skills is kept in one place for all calls, as
\* an attribute of the extractor would be.
FrameOnExtractor(p) ==
    1

\* found_skills = {} (line 303) binds a local: each call has its own.
FrameOf(p) ==
    p

\* Lines 336-341 on a found_skills dict: one best format per key, sorted.
BestFormats(found) ==
    LET keys == SortedSet(DOMAIN found)
    IN  sorted([i \in DOMAIN keys |-> pick_best_format(found[keys[i]])])

\* A caller enters extractor.extract_best_format(text).
BeginExtract(p, text) ==
    /\ constructed /\ callers[p].pc = "idle"
    /\ callers' = [callers EXCEPT ![p] =
                      [NotCalling EXCEPT !.pc = "entered", !.op = "extract",
                                         !.stage = "only", !.text = text]]
    /\ UNCHANGED <<frames, cache, cache_writers, inits, constructed, skills,
                   skill_variations, init_path, init_runs, fetched, call,
                   extracted, job_skills, resume_skills, report, nlp_calls,
                   raised, sized, selection>>

\* A caller enters matcher.match_skills(resume_text, job_desc); line 477
\* calls extract_best_format(job_desc).
BeginMatch(p, resume_text, job_desc) ==
    /\ constructed /\ callers[p].pc = "idle"
    /\ callers' = [callers EXCEPT ![p] =
                      [NotCalling EXCEPT !.pc = "entered", !.op = "match",
                                         !.stage = "job", !.text = job_desc,
                                         !.resume_text = resume_text,
                                         !.job_desc = job_desc]]
    /\ UNCHANGED <<frames, cache, cache_writers, inits, constructed, skills,
                   skill_variations, init_path, init_runs, fetched, call,
                   extracted, job_skills, resume_skills, report, nlp_calls,
                   raised, sized, selection>>

\* Lines 299-303: the guard, the tokenization, found_skills = {}.
Tokenize(p) ==
    /\ callers[p].pc = "entered"
    /\ IF IsFalsy(callers[p].text)
       THEN /\ callers' = [callers EXCEPT ![p] =
                              [@ EXCEPT !.pc = "returned", !.returned = <<>>]]
            /\ UNCHANGED frames
       ELSE /\ callers' = [callers EXCEPT ![p] = [@ EXCEPT !.pc = "tokenized"]]
            /\ frames' = [frames EXCEPT ![FrameOf(p)] = EmptyFound]
    /\ UNCHANGED <<cache, cache_writers, inits, constructed, skills,
                   skill_variations, init_path, init_runs, fetched, call,
                   extracted, job_skills, resume_skills, report, nlp_calls,
                   raised, sized, selection>>

\* Lines 306-311: the single-token pass.
SingleTokens(p) ==
    /\ callers[p].pc = "tokenized"
    /\ frames' = [frames EXCEPT ![FrameOf(p)] =
                     SingleTokenPass(callers[p].text.tokens, 1, @, skills)]
    /\ callers' = [callers EXCEPT ![p] = [@ EXCEPT !.pc = "singled"]]
    /\ UNCHANGED <<cache, cache_writers, inits, constructed, skills,
                   skill_variations, init_path, init_runs, fetched, call,
                   extracted, job_skills, resume_skills, report, nlp_calls,
                   raised, sized, selection>>

\* Lines 315-333: the sliding-window pass.
SlidingWindow(p) ==
    /\ callers[p].pc = "singled"
    /\ frames' = [frames EXCEPT ![FrameOf(p)] =
                     SlidingWindowPass(callers[p].text.tokens, 1, 1, @,
                                       skills, skill_variations)]
    /\ callers' = [callers EXCEPT ![p] = [@ EXCEPT !.pc = "windowed"]]
    /\ UNCHANGED <<cache, cache_writers, inits, constructed, skills,
                   skill_variations, init_path, init_runs, fetched, call,
                   extracted, job_skills, resume_skills, report, nlp_calls,
                   raised, sized, selection>>

\* Lines 336-341: the selection and the return of the sorted list; the
\* frame and its found_skills are gone with the return.
SelectAndReturn(p) ==
    /\ callers[p].pc = "windowed"
    /\ callers' = [callers EXCEPT ![p] =
                      [@ EXCEPT !.pc = "returned",
                                !.returned = BestFormats(frames[FrameOf(p)])]]
    /\ frames' = [frames EXCEPT ![FrameOf(p)] = EmptyFound]
    /\ UNCHANGED <<cache, cache_writers, inits, constructed, skills,
                   skill_variations, init_path, init_runs, fetched, call,
                   extracted, job_skills, resume_skills, report, nlp_calls,
                   raised, sized, selection>>

\* The returned list reaches the caller of extract_best_format: the outside
\* caller, or match_skills at line 477 (which goes on to line 478) or at
\* line 478 (which goes on to lines 480-507).
TakeReturned(p) ==
    /\ callers[p].pc = "returned"
    /\ callers' = [callers EXCEPT ![p] =
          IF callers[p].stage = "only"
          THEN [@ EXCEPT !.pc = "done", !.result = callers[p].returned]
          ELSE IF callers[p].stage = "job"
          THEN [@ EXCEPT !.pc = "entered", !.stage = "resume",
                         !.job_skills = callers[p].returned,
                         !.text = callers[p].resume_text, !.returned = <<>>]
          ELSE [@ EXCEPT !.pc = "done",
                         !.resume_skills = callers[p].returned,
                         !.report = match_report(callers[p].job_skills,
                                                 callers[p].returned)]]
    /\ UNCHANGED <<frames, cache, cache_writers, inits, constructed, skills,
                   skill_variations, init_path, init_runs, fetched, call,
                   extracted, job_skills, resume_skills, report, nlp_calls,
                   raised, sized, selection>>

\* The caller goes on with the value and may call again.
Leave(p) ==
    /\ callers[p].pc = "done"
    /\ callers' = [callers EXCEPT ![p] = NotCalling]
    /\ UNCHANGED <<frames, cache, cache_writers, inits, constructed, skills,
                   skill_variations, init_path, init_runs, fetched, call,
                   extracted, job_skills, resume_skills, report, nlp_calls,
                   raised, sized, selection>>

InitCallers == Init /\ cache = SeedCache

NextCallers ==
    \/ ConstructFromCache(FALSE)
    \/ \E p \in Callers, text \in CallerTexts : BeginExtract(p, text)
    \/ \E p \in Callers, resume_text \in CallerTexts, job_desc \in CallerJobTexts :
           BeginMatch(p, resume_text, job_desc)
    \/ \E p \in Callers : Tokenize(p)
    \/ \E p \in Callers : SingleTokens(p)
    \/ \E p \in Callers : SlidingWindow(p)
    \/ \E p \in Callers : SelectAndReturn(p)
    \/ \E p \in Callers : TakeReturned(p)
    \/ \E p \in Callers : Leave(p)

SpecCallers == InitCallers /\ [][NextCallers]_vars

(***************************************************************************)
(* The Format Selector on lists of observations                            *)
(***************************************************************************)

\* The longest list of observations handed to _pick_best_format.
MaxFormats == 3

\* Observations of one skill in the spellings the quality score tells
\* apart: lowercase (1), mixed case with a special character (15),
\* uppercase (2), lowercase with a special character (6), mixed case (10),
\* uppercase with a special character (7),
\* and a second mixed-case spelling (10).
FormatStrings ==
    {<<"n", "o", "d", "e", "j", "s">>,
     <<"N", "o", "d", "e", ".", "j", "s">>,
     <<"N", "O", "D", "E", "J", "S">>,
     <<"n", "o", "d", "e", ".", "j", "s">>,
     <<"N", "o", "d", "e", "J", "S">>,
     <<"N", "O", "D", "E", ".", "J", "S">>,
     <<"N", "o", "d", "e", "j", "s">>}

\* The non-empty lists of at most n observations.
FormatLists(n) == UNION {[1..k -> FormatStrings] : k \in 1..n}

\* extractor._pick_best_format(formats), a function of its argument alone:
\* one call from the initial state for every list.
PickBestFormat(formats) ==
    /\ selection = NoSelection
    /\ selection' = [formats |-> formats, best |-> pick_best_format(formats)]
    /\ UNCHANGED <<cache, constructed, skills, skill_variations, init_path,
                   init_runs, fetched, call, extracted, job_skills,
                   resume_skills, report, nlp_calls, raised, sized, inits,
                   cache_writers, callers, frames>>

InitFormats == Init /\ cache = NoFile

NextFormats == \E formats \in FormatLists(MaxFormats) : PickBestFormat(formats)

SpecFormats == InitFormats /\ [][NextFormats]_vars
(***************************************************************************)
(* Properties                                                              *)
(***************************************************************************)

\* The key sets of the two sides of the match in progress.
RequirementKeys == {lower(x) : x \in Range(job_skills)}

CandidateKeys == {lower(x) : x \in Range(resume_skills)}

Matching == call.op = "match"

Extracting == call.op = "extract"

\* int(s) for a string of decimal digits.
RECURSIVE ParseInt(_)
ParseInt(s) ==
    IF s = <<>> THEN 0
    ELSE 10 * ParseInt(SubSeq(s, 1, Len(s) - 1))
         + (CHOOSE d \in 0..9 : DigitChars[d + 1] = s[Len(s)])

\* The two integers of a ratio string "m/n".
RatioParts(ratio) ==
    LET cut == CHOOSE i \in DOMAIN ratio : ratio[i] = "/"
    IN  <<ParseInt(SubSeq(ratio, 1, cut - 1)),
          ParseInt(SubSeq(ratio, cut + 1, Len(ratio)))>>

\* s, in hundredths, is num/den rounded to the nearest hundredth.
NearestHundredth(s, num, den) ==
    2 * (IF s * den >= 100 * num THEN s * den - 100 * num
                                 ELSE 100 * num - s * den) <= den

\* C1: when the requirement text yields a non-empty key set, the report's
\* score is 100 * |matched| / |requirement| rounded to two decimals and its
\* ratio reads "|matched|/|requirement|", matched being the requirement
\* keys that are candidate keys too.
C1_ScoreAndRatio ==
    (Matching /\ RequirementKeys # {}) =>
        LET m == Cardinality(RequirementKeys \cap CandidateKeys)
            n == Cardinality(RequirementKeys)
        IN  /\ report.status = "ok"
            /\ NearestHundredth(report.score, 100 * m, n)
            /\ Cardinality({i \in DOMAIN report.match_ratio :
                               report.match_ratio[i] = "/"}) = 1
            /\ RatioParts(report.match_ratio) = <<m, n>>

\* Two of three requirement skills matched: 66.67 and "2/3".
C1_Witness ==
    /\ Matching
    /\ Cardinality(RequirementKeys) = 3
    /\ Cardinality(RequirementKeys \cap CandidateKeys) = 2
    /\ report.score = 6667
    /\ report.match_ratio = <<"2", "/", "3">>

\* C2: when the requirement text yields no skills, the report is exactly
\* the zero-valued one (no lists, 0.0, "0/0", the fixed message) and the
\* call does not raise.
C2_EmptyRequirement ==
    (Matching /\ job_skills = <<>>) =>
        /\ report.status = "ok"
        /\ report.matched_keywords = <<>>
        /\ report.missing_keywords = <<>>
        /\ report.score = 0
        /\ report.match_ratio = <<"0", "/", "0">>
        /\ report.explanation.headline = "No skills found in job description"
        /\ report.explanation.shown_score = <<>>
        /\ report.explanation.matched_line = <<>>
        /\ report.explanation.missing_line = <<>>

\* An empty job description matched against a resume that names skills.
C2_Witness ==
    /\ Matching
    /\ call.job_desc.tokens = <<>>
    /\ resume_skills # <<>>
    /\ report.match_ratio = <<"0", "/", "0">>

\* C3: every string of matched_keywords and of missing_keywords is a
\* display string the extraction of the requirement text produced, and it
\* is the one the requirement side holds for that key; a candidate-side
\* spelling that the requirement side did not produce is in neither list.
C3_DisplayAsymmetry ==
    Matching =>
        /\ \A x \in Range(report.matched_keywords) \cup Range(report.missing_keywords) :
               x \in Range(job_skills)
        /\ \A y \in Range(resume_skills) :
               y \notin Range(job_skills) =>
                   y \notin Range(report.matched_keywords)
                            \cup Range(report.missing_keywords)

\* A matched skill that the candidate spells differently from the
\* requirement.
C3_Witness ==
    /\ Matching
    /\ \E x \in Range(report.matched_keywords) :
           \E y \in Range(resume_skills) : lower(y) = lower(x) /\ y # x

\* The surface observations of the two sides per canonical key.
JobFound ==
    IF call.job_desc.tokens = <<>> THEN EmptyFound
    ELSE FoundSkills(call.job_desc, skills, skill_variations)

ResumeFound ==
    IF call.resume_text.tokens = <<>> THEN EmptyFound
    ELSE FoundSkills(call.resume_text, skills, skill_variations)

\* C4: the canonical skill is the matching key: when the requirement text
\* mentions canonical skill c and the candidate text mentions c only through
\* registered variation spellings other than c itself, the report lists c,
\* in the requirement's spelling, as matched and not as missing.
C4_CanonicalIsMatchingKey ==
    Matching =>
        \A c \in (DOMAIN JobFound) \cap (DOMAIN ResumeFound) :
            (\A i \in DOMAIN ResumeFound[c] :
                 /\ lower(ResumeFound[c][i]) # c
                 /\ lower(ResumeFound[c][i]) \in skill_variations[c])
            => /\ pick_best_format(JobFound[c]) \in Range(report.matched_keywords)
               /\ pick_best_format(JobFound[c]) \notin Range(report.missing_keywords)

\* C5 as stated: score == 100.0 iff nothing is missing and the requirement
\* set is non-empty, whatever the size of the requirement set.
C5_PerfectIffNothingMissing ==
    sized.status = "ok" =>
        (sized.score = Percent(100) <=> (sized.n_missing = 0 /\ sized.n_job > 0))

\* C5, amended: for a requirement set of fewer than 20000 skills,
\* score == 100.0 iff nothing is missing and the set is non-empty; for any
\* size, nothing missing from a non-empty set gives 100.0.
C5_PerfectIffNothingMissingBelowOnset ==
    sized.status = "ok" =>
        /\ (sized.n_missing = 0 /\ sized.n_job > 0) => sized.score = Percent(100)
        /\ sized.n_job < 20000 =>
               (sized.score = Percent(100) => (sized.n_missing = 0 /\ sized.n_job > 0))

\* A full match, and a near-full match just below the size at which
\* rounding reaches 100.0.
C5_Witness ==
    /\ sized.status = "ok"
    /\ sized.n_job = 19999
    /\ sized.n_missing = 1
    /\ sized.score = 9999

\* C6: the score of every report is between 0 and 100.
C6_ScoreBounds ==
    Matching => (0 <= report.score /\ report.score <= Percent(100))

\* A report strictly inside the bounds and one at each end have been
\* produced; this one is strictly inside.
C6_Witness ==
    /\ Matching
    /\ report.status = "ok"
    /\ 0 < report.score /\ report.score < Percent(100)
    /\ Cardinality(CandidateKeys) > Cardinality(RequirementKeys \cap CandidateKeys)

\* C7: the two integers of match_ratio are len(matched_keywords) and
\* len(matched_keywords) + len(missing_keywords), the empty-requirement
\* report included.
C7_RatioConsistency ==
    Matching =>
        /\ report.status = "ok"
        /\ RatioParts(report.match_ratio) =
               <<Len(report.matched_keywords),
                 Len(report.matched_keywords) + Len(report.missing_keywords)>>

\* A report with both lists non-empty.
C7_Witness ==
    /\ Matching
    /\ report.matched_keywords # <<>>
    /\ report.missing_keywords # <<>>
    /\ RatioParts(report.match_ratio) = <<1, 3>>

\* C8: the list extract_best_format returns holds no display string twice.
C8_Deduplicated ==
    Extracting =>
        \A i, j \in DOMAIN extracted : i # j => extracted[i] # extracted[j]

\* The surface texts of the tokens of the extracted text whose lowercase
\* form is k, in order of appearance.
TokenTexts == [i \in DOMAIN call.text.tokens |-> call.text.tokens[i].text]

VariantsOf(k) == {x \in Range(TokenTexts) : lower(x) = k}

IsMixedCase(x) ==
    (\E i \in DOMAIN x : CharIsUpper(x[i])) /\ (\E i \in DOMAIN x : CharIsLower(x[i]))

\* C9: when a skill appears in several case variants, each as often as the
\* others, in whatever order, and one of them is mixed case,
\* extract_best_format reports a mixed-case variant for it.
C9_MixedCasePreferred ==
    Extracting =>
        \A k \in skills :
            (/\ Cardinality(VariantsOf(k)) >= 2
             /\ \A x, y \in VariantsOf(k) : CountOf(TokenTexts, x) = CountOf(TokenTexts, y)
             /\ \E x \in VariantsOf(k) : IsMixedCase(x))
            => \E x \in VariantsOf(k) : IsMixedCase(x) /\ x \in Range(extracted)

\* The skill data the extractor was initialized from: the cache entries on
\* the load path, the fetched language names on the rebuild path.
InitData ==
    IF init_path = "load" THEN LoadFromCache(cache.data) ELSE fetched.languages

\* C10: initialized, by cache load or by rebuild, from skill data holding
\* both "c" and "r", the extraction of a text with the standalone tokens
\* "C" and "R" returns "R" and no entry whose lowercase form is "c".
C10_SingleLetterFiltering ==
    (/\ Extracting
     /\ <<"c">> \in InitData /\ <<"r">> \in InitData
     /\ <<"C">> \in Range(TokenTexts) /\ <<"R">> \in Range(TokenTexts))
    => /\ <<"R">> \in Range(extracted)
       /\ \A x \in Range(extracted) : lower(x) # <<"c">>


(***************************************************************************)
(* Properties of initialization and extraction                             *)
(***************************************************************************)

\* C11: once initialization has completed, by the cache path or by the
\* rebuild path, every member of the taxonomy is a lowercase string of
\* length > 1 or is the single-character exception "r".
C11_TaxonomyInvariant ==
    constructed =>
        \A s \in skills :
            /\ lower(s) = s
            /\ (Len(s) > 1 \/ s = str_letter_r)

\* The windows of the extracted text: start i and length 1..MaxWindow, kept
\* inside the document.
Windows ==
    {w \in (DOMAIN call.text.tokens) \X (1..MaxWindow) :
        w[1] + w[2] - 1 <= Len(call.text.tokens)}

\* The canonical skills a window names: those with the window's lowercased
\* text among their registered variation spellings.
CanonicalsNamedBy(w) ==
    {c \in DOMAIN skill_variations :
        lower(SpanText(call.text.tokens, w[1], w[2])) \in skill_variations[c]}

\* C12: when a window of 1 to 3 consecutive tokens, lowercased, equals a
\* variation spelling registered for canonical skill s, the list
\* extract_best_format returns holds an entry for s (one entry per skill
\* named), whether or not the spelling is a taxonomy member.
C12_VariationResolution ==
    Extracting =>
        /\ \A w \in Windows : \A s \in CanonicalsNamedBy(w) :
               \E x \in Range(extracted) : lower(x) \in skill_variations[s]
        /\ Len(extracted) >= Cardinality(UNION {CanonicalsNamedBy(w) : w \in Windows})

\* "vuejs", which is no taxonomy member, is reported for "vue.js".
C12_Witness ==
    /\ Extracting
    /\ \E w \in Windows :
           LET surface == SpanText(call.text.tokens, w[1], w[2])
           IN  /\ lower(surface) \notin skills
               /\ CanonicalsNamedBy(w) # {}
               /\ surface \in Range(extracted)

\* C13: for a fixed taxonomy and variation index, extract_best_format on a
\* text returns the same list, content and order, under every order in
\* which the variation dict can yield its items, after any calls made
\* before; it is the list the order-free extract_best_format gives.
C13_Determinism ==
    Extracting =>
        /\ \A items_order \in ItemOrders(DOMAIN skill_variations) :
               extracted = extract_in_order(call.text, skills, skill_variations,
                                            items_order)
        /\ extracted = extract_best_format(call.text, skills, skill_variations)

\* An extraction in which the dict order shows before line 341 sorts: two
\* orders give different unsorted results, with different display strings.
C13_Witness ==
    /\ Extracting
    /\ Len(extracted) = 2 /\ extracted[1] # extracted[2]
    /\ \E o1, o2 \in ItemOrders(DOMAIN skill_variations) :
           BestFormatsInOrder(call.text, skills, skill_variations, o1)
               # BestFormatsInOrder(call.text, skills, skill_variations, o2)

\* C14: extract_best_format on the empty string or on None returns the
\* empty list, does not raise and does not invoke the tokenizer.
C14_ExtractionTotal ==
    (Extracting /\ (call.text.is_none \/ call.text.tokens = <<>>)) =>
        /\ extracted = <<>>
        /\ ~raised
        /\ nlp_calls = 0

\* extract_best_format(None) has returned.
C14_Witness ==
    /\ Extracting
    /\ call.text.is_none
    /\ extracted = <<>>
    /\ nlp_calls = 0
    /\ ~raised

\* C15: across the analysis requests one process handles, taxonomy
\* initialization (cache read, or rebuild with fetch and cache write) runs
\* at most once.
C15_InitializedOnce ==
    init_runs <= 1

\* C16: when several initializations run at the same time, no two of them
\* hold the cache artifact open for writing together, and none on the load
\* path reads the artifact while it is only partly written.
C16_SingleWriter ==
    /\ Cardinality(cache_writers) <= 1
    /\ \A p \in Initializers : ~inits[p].read_partial

\* C17: an initialization with auto_update false that finds the cache
\* artifact takes the lowercased cache entries as the taxonomy, fetches
\* nothing and leaves the cache artifact as it was.
C17_FastPath ==
    [][((ConstructFromCache(FALSE)
            \/ \E fetch \in FetchOutcomes : ConstructByRebuild(FALSE, fetch))
        /\ cache.exists) =>
          /\ skills' = {lower(cache.data[i]) : i \in DOMAIN cache.data}
          /\ ~fetched'.called
          /\ cache' = cache]_vars

\* An extractor loaded from a cache artifact that holds "Docker": the
\* taxonomy holds "docker" and no fetch was made.
C17_Witness ==
    /\ constructed
    /\ init_path = "load"
    /\ ~fetched.called
    /\ \E i \in DOMAIN cache.data :
           cache.data[i] \notin skills /\ lower(cache.data[i]) \in skills

\* C18: a rebuild whose language-name fetch failed still completes: the
\* taxonomy holds every curated skill of length > 1 (or "r"), and the cache
\* artifact has been written with the taxonomy.
C18_FetchFailureNotFatal ==
    (fetched.called /\ ~fetched.ok) =>
        /\ constructed
        /\ init_path = "rebuild"
        /\ {s \in get_curated_tech_skills : Len(s) > 1 \/ s = str_letter_r} \subseteq skills
        /\ cache.exists
        /\ Range(cache.data) = skills

\* A rebuild with a failed fetch has completed with the curated skills.
C18_Witness ==
    /\ constructed
    /\ init_path = "rebuild"
    /\ fetched.called /\ ~fetched.ok
    /\ cache.exists
    /\ get_curated_tech_skills \subseteq Range(cache.data)
    /\ fetched.languages = {}

\* C19: in a report with a non-empty requirement skill set, the verdict of
\* the explanation agrees with the score of the report: "Strong match" iff
\* score >= 80, "Good match" iff 60 <= score < 80, "Partial match" iff
\* 40 <= score < 60, "Weak match" iff score < 40.
C19_VerdictAgreesWithScore ==
    (sized.status = "ok" /\ sized.n_job > 0) =>
        /\ sized.headline = "Strong match" <=> sized.score >= Percent(80)
        /\ sized.headline = "Good match" <=>
               (Percent(60) <= sized.score /\ sized.score < Percent(80))
        /\ sized.headline = "Partial match" <=>
               (Percent(40) <= sized.score /\ sized.score < Percent(60))
        /\ sized.headline = "Weak match" <=> sized.score < Percent(40)

\* The candidate text of the match in progress cut back to its first k
\* tokens.
ResumePrefix(k) == Text(SubSeq(call.resume_text.tokens, 1, k))

FoundIn(text) ==
    IF text.tokens = <<>> THEN EmptyFound
    ELSE FoundSkills(text, skills, skill_variations)

\* The canonical skills that the tokens after the first k mention: those
\* whose observations in the whole candidate text are not the ones of the
\* first k tokens.
MentionedAfter(k) ==
    {c \in DOMAIN ResumeFound :
        c \notin DOMAIN FoundIn(ResumePrefix(k))
        \/ FoundIn(ResumePrefix(k))[c] # ResumeFound[c]}

\* The report on the same requirement text and the candidate text cut back
\* to its first k tokens.
ReportOnPrefix(k) ==
    match_report(job_skills,
                 extract_best_format(ResumePrefix(k), skills, skill_variations))

\* C20: when the tokens added to a candidate text mention only skills that
\* the requirement text does not mention, score, match_ratio,
\* matched_keywords and missing_keywords are those of the report on the
\* candidate text without the added tokens.
C20_ExtraSkillsIgnored ==
    Matching =>
        \A k \in 0..(Len(call.resume_text.tokens) - 1) :
            (MentionedAfter(k) \cap DOMAIN JobFound = {}) =>
                /\ report.score = ReportOnPrefix(k).score
                /\ report.match_ratio = ReportOnPrefix(k).match_ratio
                /\ report.matched_keywords = ReportOnPrefix(k).matched_keywords
                /\ report.missing_keywords = ReportOnPrefix(k).missing_keywords

\* A candidate text whose last token adds a skill the requirement does not
\* mention, after a token that matches the requirement.
C20_Witness ==
    /\ Matching
    /\ Len(call.resume_text.tokens) >= 2
    /\ MentionedAfter(Len(call.resume_text.tokens) - 1) # {}
    /\ MentionedAfter(Len(call.resume_text.tokens) - 1) \cap DOMAIN JobFound = {}
    /\ report.matched_keywords # <<>>
    /\ Len(resume_skills) > Len(report.matched_keywords)

(***************************************************************************)
(* Properties of concurrent calls, selection and persistence               *)
(***************************************************************************)

\* The value a finished call handed its caller.
CallDone(p) == callers[p].pc = "done"

\* What the same call gives when it runs alone on the extractor.
AloneResult(p) ==
    extract_best_format(callers[p].text, skills, skill_variations)

AloneReport(p) ==
    match_report(
        extract_best_format(callers[p].job_desc, skills, skill_variations),
        extract_best_format(callers[p].resume_text, skills, skill_variations))

\* C21: whatever calls of extract_best_format and match_skills the callers
\* make, and however their phases interleave, no step changes the taxonomy
\* or the variation index of the constructed extractor, and every finished
\* call returns what the same call returns when run alone.
C21_NoSharedMutation ==
    /\ [](\A p \in Callers :
             CallDone(p) =>
                 IF callers[p].op = "extract"
                 THEN callers[p].result = AloneResult(p)
                 ELSE callers[p].report = AloneReport(p))
    /\ [][constructed =>
             skills' = skills /\ skill_variations' = skill_variations]_vars

\* A match_skills call has finished with a matched keyword while another
\* caller, with another text, is between the two passes of its extraction
\* and holds a non-empty found_skills.
C21_Witness ==
    \E p, q \in Callers :
        /\ p # q
        /\ CallDone(p) /\ callers[p].op = "match"
        /\ callers[p].report.matched_keywords # <<>>
        /\ callers[q].pc = "singled"
        /\ callers[q].text # callers[p].text
        /\ frames[q] # EmptyFound

\* How often x occurs in the list handed to _pick_best_format.
Occurrences(x) ==
    Cardinality({i \in DOMAIN selection.formats : selection.formats[i] = x})

\* The largest number of occurrences of one string in the list.
TopFrequency ==
    CHOOSE n \in 1..Len(selection.formats) :
        /\ \E i \in DOMAIN selection.formats : Occurrences(selection.formats[i]) = n
        /\ \A i \in DOMAIN selection.formats : Occurrences(selection.formats[i]) <= n

\* C22: for a list of two or more observations whose most frequent exact
\* string occurs more than once, _pick_best_format returns a string of that
\* highest frequency, whatever the quality scores of the others.
C22_FrequencyOverride ==
    (Len(selection.formats) >= 2 /\ TopFrequency > 1) =>
        Occurrences(selection.best) = TopFrequency

\* ["nodejs", "nodejs", "Node.js"] gives "nodejs": the repeated string wins
\* over one of higher quality.
C22_Witness ==
    /\ Len(selection.formats) >= 3
    /\ TopFrequency > 1
    /\ Occurrences(selection.best) = TopFrequency
    /\ \E i \in DOMAIN selection.formats :
           format_quality_score(selection.formats[i])
               > format_quality_score(selection.best)

\* The additive quality score as C23 states it: +10 mixed case, +5 one of
\* the characters + # . - /, +2 all uppercase with length > 1, +1 all
\* lowercase.
StatedQuality(x) ==
    (IF IsMixedCase(x) THEN 10 ELSE 0)
    + (IF \E i \in DOMAIN x : x[i] \in {"+", "#", ".", "-", "/"} THEN 5 ELSE 0)
    + (IF lower(x) # x /\ ~IsMixedCase(x) /\ Len(x) > 1 THEN 2 ELSE 0)
    + (IF lower(x) = x /\ (\E i \in DOMAIN x : CharIsLower(x[i])) THEN 1 ELSE 0)

\* No string occurs twice in the list handed to _pick_best_format.
NoRepeats ==
    \A i, j \in DOMAIN selection.formats :
        selection.formats[i] = selection.formats[j] => i = j

\* C23: for a list of two or more observations without a repeated string,
\* _pick_best_format returns the earliest observation among those of the
\* highest stated quality score; a mixed-case observation in the list keeps
\* every observation that is not mixed case from being returned.
C23_QualityRanking ==
    (Len(selection.formats) >= 2 /\ NoRepeats) =>
        /\ \E i \in DOMAIN selection.formats :
              /\ selection.best = selection.formats[i]
              /\ \A j \in DOMAIN selection.formats :
                     StatedQuality(selection.formats[j]) <= StatedQuality(selection.formats[i])
              /\ \A j \in 1..(i - 1) :
                     StatedQuality(selection.formats[j]) < StatedQuality(selection.formats[i])
        /\ (\E i \in DOMAIN selection.formats : IsMixedCase(selection.formats[i]))
               => IsMixedCase(selection.best)

\* Two mixed-case observations of equal score after an uppercase one with a
\* special character: the first of the two is returned, a tie broken by
\* position.
C23_Witness ==
    /\ Len(selection.formats) >= 3 /\ NoRepeats
    /\ \E i, j \in DOMAIN selection.formats :
           /\ i < j
           /\ selection.best = selection.formats[i]
           /\ StatedQuality(selection.formats[i]) = StatedQuality(selection.formats[j])
    /\ ~IsMixedCase(selection.formats[1])
    /\ IsMixedCase(selection.best)

\* The reference extractor of C24: one scan of the windows of 1 to MaxWindow
\* tokens, in the order of lines 315-318, in which a window is recorded
\* once under every canonical key it names, whether it names the key as a
\* taxonomy member, as a variation, or both.
ReferenceStep(doc, i, length, found, skills_in, variations_in) ==
    LET surface   == SpanText(doc, i, length)
        span_text == lower(surface)
        keys      == ({span_text} \cap skills_in)
                     \cup {c \in DOMAIN variations_in : span_text \in variations_in[c]}
    IN  RecordAll(found, keys, surface)

RECURSIVE ReferenceScan(_, _, _, _, _, _)
ReferenceScan(doc, i, length, found, skills_in, variations_in) ==
    IF i > Len(doc) THEN found
    ELSE IF length > MaxWindow \/ i + length - 1 > Len(doc)
         THEN ReferenceScan(doc, i + 1, 1, found, skills_in, variations_in)
         ELSE ReferenceScan(doc, i, length + 1,
                  ReferenceStep(doc, i, length, found, skills_in, variations_in),
                  skills_in, variations_in)

reference_extract(text, skills_in, variations_in) ==
    IF IsFalsy(text) THEN <<>>
    ELSE BestFormats(ReferenceScan(text.tokens, 1, 1, EmptyFound,
                                   skills_in, variations_in))

\* C24: for every text and taxonomy, extract_best_format returns the list
\* the reference extractor returns, so that recording one occurrence more
\* than once does not show in the output.
C24_DuplicateRecordingHarmless ==
    (Extracting /\ ~raised) =>
        extracted = reference_extract(call.text, skills, skill_variations)

\* C25: when initialization took the rebuild path and has completed, the
\* cache artifact holds the members of the returned taxonomy and nothing
\* else, each once, in ascending order.
C25_PersistAfterRebuild ==
    (constructed /\ init_path = "rebuild") =>
        /\ cache.exists
        /\ Range(cache.data) = skills
        /\ Len(cache.data) = Cardinality(skills)
        /\ \A i \in 1..(Len(cache.data) - 1) :
               StrLess(cache.data[i], cache.data[i + 1])

\* A rebuild with a successful fetch: the artifact holds the fetched
\* "python" and "r", not the filtered "c", and "r" after "python".
C25_Witness ==
    /\ constructed /\ init_path = "rebuild" /\ fetched.ok
    /\ str_letter_c \in fetched.languages
    /\ str_letter_c \notin Range(cache.data)
    /\ \E i, j \in DOMAIN cache.data :
           /\ i < j
           /\ cache.data[i] = <<"p", "y", "t", "h", "o", "n">>
           /\ cache.data[j] = str_letter_r

\* C26: after initialization the keys of the variation index are the
\* members of the taxonomy, and the variation set of every canonical skill
\* holds the skill itself (so it is not empty).
C26_VariationIndex ==
    constructed =>
        /\ DOMAIN skill_variations = skills
        /\ \A s \in skills :
               skill_variations[s] # {} /\ s \in skill_variations[s]

\* A constructed extractor whose index gives "vue.js" its derived spellings
\* beside itself.
C26_Witness ==
    /\ constructed
    /\ <<"v", "u", "e", ".", "j", "s">> \in skills
    /\ {<<"v", "u", "e", ".", "j", "s">>, <<"v", "u", "e">>, <<"v", "u", "e", "j", "s">>}
           \subseteq skill_variations[<<"v", "u", "e", ".", "j", "s">>]

C28_AlphabeticOrder ==
    (Extracting /\ ~raised) =>
        \A i, j \in DOMAIN extracted :
            i < j => ~StrLess(lower(extracted[j]), lower(extracted[i]))

\* C29: in what the analyze_skills tool returns, every element of
\* job_skills is in exactly one of matched_keywords and missing_keywords,
\* the two lists hold no other string, and the denominator of match_ratio
\* is len(job_skills).
C29_ToolFieldsConsistent ==
    (Matching /\ report.status = "ok") =>
        /\ \A x \in Range(job_skills) :
               (x \in Range(report.matched_keywords))
                   # (x \in Range(report.missing_keywords))
        /\ Range(report.matched_keywords) \cup Range(report.missing_keywords)
               \subseteq Range(job_skills)
        /\ RatioParts(report.match_ratio)[2] = Len(job_skills)

\* The spellings registered in the variation index, for any canonical.
RegisteredVariations == UNION {skill_variations[c] : c \in DOMAIN skill_variations}

=============================================================================
